---- MODULE Spec2Model ----
(***************************************************************************)
(* A model of espnprojections: the ESPN fantasy API parser                 *)
(* (espnprojections/espnapi.py) and the Watson parser                      *)
(* (espnprojections/watson.py), with the two ProjectionSource adapters.    *)
(*                                                                         *)
(* Python values are modelled as follows.                                  *)
(*   - A JSON / Python scalar that may be None is a tagged record          *)
(*     [t |-> kind, v |-> payload]; None (JSON null) is JNull.             *)
(*   - A dict is a TLA+ function whose DOMAIN is the dict's key set, so a  *)
(*     missing key is a key outside DOMAIN and d[k] on it is a KeyError.   *)
(*   - A list is a sequence.                                               *)
(*   - A float is held in tenths: 12.5 is JFloat(125).                     *)
(*   - A raised exception is the tagged value Raise(kind).                 *)
(***************************************************************************)
EXTENDS Integers, Sequences, FiniteSets, TLC

VARIABLES
    season, week,                          \* Parser.season, Parser.week
    rt_pc, rt_arg, rt_mid, rt_out,         \* espn_team round trip
    fp_pc, fp_stats, fp_out,               \* a call of Parser._find_projection
    ps_pc, ps_stat, ps_out,                \* a call of Parser._parse_stats
    load_pc, content, players, proj,       \* ESPNProjections.load_raw:
    done_n, exc, table,                    \*   Parser.weekly_projections
    pr_pc, pr_adapter, pr_df, pr_out,      \* a call of process_raw
    st_pc, st_adapter, st_in, st_df,       \* a call of standardize
    teams_mode, positions_mode,            \*   and its collaborators
    st_run, st_prev,                       \*   and of standardize on its result
    wp_pc, wp_op, wp_data, wp_out          \* a call of the Watson Parser

vars_parser == <<season, week>>
vars_rt == <<rt_pc, rt_arg, rt_mid, rt_out>>
vars_fp == <<fp_pc, fp_stats, fp_out>>
vars_ps == <<ps_pc, ps_stat, ps_out>>
vars_load == <<load_pc, content, players, proj, done_n, exc, table>>
vars_pr == <<pr_pc, pr_adapter, pr_df, pr_out>>
vars_st ==
    <<st_pc, st_adapter, st_in, st_df, teams_mode, positions_mode, st_run,
      st_prev>>
vars_wp == <<wp_pc, wp_op, wp_data, wp_out>>
vars ==
    <<vars_parser, vars_rt, vars_fp, vars_ps, vars_load, vars_pr, vars_st,
      vars_wp>>

----------------------------------------------------------------------------
(* Python values *)

JInt(n) == [t |-> "int", v |-> n]
JStr(s) == [t |-> "str", v |-> s]
JFloat(n) == [t |-> "float", v |-> n]
JNull == [t |-> "null", v |-> 0]
JList == [t |-> "list", v |-> 0]
JBool(b) == [t |-> "bool", v |-> b]
None == JNull
Raise(kind) == [t |-> "raise", v |-> kind]
IsRaise(x) == "t" \in DOMAIN x /\ x.t = "raise"

\* bool(x) for the scalars above
Truthy(x) ==
    CASE x.t = "null" -> FALSE
      [] x.t = "str" -> x.v # ""
      [] x.t = "int" -> x.v # 0
      [] x.t = "float" -> x.v # 0
      [] x.t = "bool" -> x.v
      [] OTHER -> TRUE

\* The value an idle variable holds in a specification that does not use it.
Idle == "idle"

IdleParser == season = Idle /\ week = Idle
IdleRt == rt_pc = Idle /\ rt_arg = Idle /\ rt_mid = Idle /\ rt_out = Idle
IdleFp == fp_pc = Idle /\ fp_stats = Idle /\ fp_out = Idle
IdlePs == ps_pc = Idle /\ ps_stat = Idle /\ ps_out = Idle
IdleLoad ==
    /\ load_pc = Idle /\ content = Idle /\ players = Idle /\ proj = Idle
    /\ done_n = Idle /\ exc = Idle /\ table = Idle
IdlePr == pr_pc = Idle /\ pr_adapter = Idle /\ pr_df = Idle /\ pr_out = Idle
IdleSt ==
    /\ st_pc = Idle /\ st_adapter = Idle /\ st_in = Idle /\ st_df = Idle
    /\ teams_mode = Idle /\ positions_mode = Idle
    /\ st_run = Idle /\ st_prev = Idle
IdleWp == wp_pc = Idle /\ wp_op = Idle /\ wp_data = Idle /\ wp_out = Idle

\* Every variable group outside G is idle, and stays as it is.
IdleBut(G) ==
    /\ IF "parser" \in G THEN TRUE ELSE IdleParser
    /\ IF "rt" \in G THEN TRUE ELSE IdleRt
    /\ IF "fp" \in G THEN TRUE ELSE IdleFp
    /\ IF "ps" \in G THEN TRUE ELSE IdlePs
    /\ IF "load" \in G THEN TRUE ELSE IdleLoad
    /\ IF "pr" \in G THEN TRUE ELSE IdlePr
    /\ IF "st" \in G THEN TRUE ELSE IdleSt
    /\ IF "wp" \in G THEN TRUE ELSE IdleWp

Frame(G) ==
    /\ IF "parser" \in G THEN TRUE ELSE UNCHANGED vars_parser
    /\ IF "rt" \in G THEN TRUE ELSE UNCHANGED vars_rt
    /\ IF "fp" \in G THEN TRUE ELSE UNCHANGED vars_fp
    /\ IF "ps" \in G THEN TRUE ELSE UNCHANGED vars_ps
    /\ IF "load" \in G THEN TRUE ELSE UNCHANGED vars_load
    /\ IF "pr" \in G THEN TRUE ELSE UNCHANGED vars_pr
    /\ IF "st" \in G THEN TRUE ELSE UNCHANGED vars_st
    /\ IF "wp" \in G THEN TRUE ELSE UNCHANGED vars_wp

----------------------------------------------------------------------------
(* Parser.TEAM_MAP, in the insertion order of the dict literal *)

TEAM_ITEMS ==
    << <<"ARI", 22>>, <<"ATL", 1>>, <<"BAL", 33>>, <<"BUF", 2>>,
       <<"CAR", 29>>, <<"CHI", 3>>, <<"CIN", 4>>, <<"CLE", 5>>,
       <<"DAL", 6>>, <<"DEN", 7>>, <<"DET", 8>>, <<"GB", 9>>,
       <<"HOU", 34>>, <<"IND", 11>>, <<"JAC", 30>>, <<"JAX", 30>>,
       <<"KC", 12>>, <<"LAC", 24>>, <<"LA", 14>>, <<"LAR", 14>>,
       <<"MIA", 15>>, <<"MIN", 16>>, <<"NE", 17>>, <<"NO", 18>>,
       <<"NYG", 19>>, <<"NYJ", 20>>, <<"OAK", 13>>, <<"PHI", 21>>,
       <<"PIT", 23>>, <<"SEA", 26>>, <<"SF", 25>>, <<"TB", 27>>,
       <<"TEN", 10>>, <<"WAS", 28>>, <<"WSH", 28>>, <<"FA", 0>> >>

TeamCodes == {TEAM_ITEMS[i][1] : i \in DOMAIN TEAM_ITEMS}
TeamIds == {TEAM_ITEMS[i][2] : i \in DOMAIN TEAM_ITEMS}

TEAM_MAP ==
    [c \in TeamCodes |->
        TEAM_ITEMS[CHOOSE i \in DOMAIN TEAM_ITEMS : TEAM_ITEMS[i][1] = c][2]]

\* A dict comprehension over items(): a later item overwrites an earlier one
\* with the same key, so an id keeps the abbreviation listed last.
FirstItemWins(id) ==
    CHOOSE i \in DOMAIN TEAM_ITEMS :
        /\ TEAM_ITEMS[i][2] = id
        /\ \A j \in DOMAIN TEAM_ITEMS : TEAM_ITEMS[j][2] = id => i <= j

LastItemWins(id) ==
    CHOOSE i \in DOMAIN TEAM_ITEMS :
        /\ TEAM_ITEMS[i][2] = id
        /\ \A j \in DOMAIN TEAM_ITEMS : TEAM_ITEMS[j][2] = id => j <= i

ItemKept(id) == LastItemWins(id)

TEAM_ID_MAP == [id \in TeamIds |-> TEAM_ITEMS[ItemKept(id)][1]]

\* int(x) of a Python scalar: TypeError on None.
PyInt(x) == IF x.t = "int" THEN x ELSE Raise("TypeError")

\* Parser.espn_team(team_code=None, team_id=None)
espn_team(team_code, team_id) ==
    IF Truthy(team_code)
    THEN IF team_code.v \in DOMAIN TEAM_MAP
         THEN JInt(TEAM_MAP[team_code.v]) ELSE None
    ELSE IF IsRaise(PyInt(team_id)) THEN PyInt(team_id)
         ELSE IF PyInt(team_id).v \in DOMAIN TEAM_ID_MAP
              THEN JStr(TEAM_ID_MAP[PyInt(team_id).v]) ELSE None

\* The two directions of the translation, as the callers write them.
team_id(code) == espn_team(code, None)
team_code(id) == espn_team(None, id)

----------------------------------------------------------------------------
(* Parser.POSITION_MAP and Parser.STAT_MAP *)

POSITION_MAP ==
    1 :> "QB" @@ 2 :> "RB" @@ 3 :> "WR" @@ 4 :> "TE" @@ 5 :> "K" @@ 16 :> "DST"

STAT_MAP ==
    "0" :> "pass_att" @@ "1" :> "pass_cmp" @@
    "3" :> "pass_yds" @@ "4" :> "pass_td" @@
    "19" :> "pass_tpc" @@ "20" :> "pass_int" @@
    "23" :> "rush_att" @@ "24" :> "rush_yds" @@
    "25" :> "rush_td" @@ "26" :> "rush_tpc" @@
    "53" :> "rec_rec" @@ "42" :> "rec_yds" @@
    "43" :> "rec_td" @@ "44" :> "rec_tpc" @@
    "58" :> "rec_tar" @@ "72" :> "fum_lost" @@
    "74" :> "madeFieldGoalsFrom50Plus" @@ "77" :> "madeFieldGoalsFrom40To49" @@
    "80" :> "madeFieldGoalsFromUnder40" @@ "85" :> "missedFieldGoals" @@
    "86" :> "madeExtraPoints" @@ "88" :> "missedExtraPoints" @@
    "89" :> "defensive0PointsAllowed" @@ "90" :> "defensive1To6PointsAllowed" @@
    "91" :> "defensive7To13PointsAllowed" @@ "92" :> "defensive14To17PointsAllowed" @@
    "93" :> "defensiveBlockedKickForTouchdowns" @@ "95" :> "defensiveInterceptions" @@
    "96" :> "defensiveFumbles" @@ "97" :> "defensiveBlockedKicks" @@
    "98" :> "defensiveSafeties" @@ "99" :> "defensiveSacks" @@
    "101" :> "kickoffReturnTouchdown" @@ "102" :> "puntReturnTouchdown" @@
    "103" :> "fumbleReturnTouchdown" @@ "104" :> "interceptionReturnTouchdown" @@
    "123" :> "defensive28To34PointsAllowed" @@ "124" :> "defensive35To45PointsAllowed" @@
    "129" :> "defensive100To199YardsAllowed" @@ "130" :> "defensive200To299YardsAllowed" @@
    "132" :> "defensive350To399YardsAllowed" @@ "133" :> "defensive400To449YardsAllowed" @@
    "134" :> "defensive450To499YardsAllowed" @@ "135" :> "defensive500To549YardsAllowed" @@
    "136" :> "defensiveOver550YardsAllowed"

----------------------------------------------------------------------------
(* float(v) and str(k) as _parse_stats uses them.  Strings are read in      *)
(* decimal notation with at most one fractional digit (a float is held in   *)
(* tenths); the inputs of the model hold no exponent, sign, inf or nan      *)
(* forms.                                                                   *)

DigitVal ==
    "0" :> 0 @@ "1" :> 1 @@ "2" :> 2 @@ "3" :> 3 @@ "4" :> 4 @@
    "5" :> 5 @@ "6" :> 6 @@ "7" :> 7 @@ "8" :> 8 @@ "9" :> 9

IsDigits(s) ==
    Len(s) > 0 /\ \A i \in 1..Len(s) : SubSeq(s, i, i) \in DOMAIN DigitVal

RECURSIVE DigitsToInt(_)
DigitsToInt(s) ==
    IF Len(s) = 0 THEN 0
    ELSE 10 * DigitsToInt(SubSeq(s, 1, Len(s) - 1))
             + DigitVal[SubSeq(s, Len(s), Len(s))]

DotsOf(s) == {i \in 1..Len(s) : SubSeq(s, i, i) = "."}

ParseDecimal(s) ==
    IF IsDigits(s) THEN JFloat(10 * DigitsToInt(s))
    ELSE IF Cardinality(DotsOf(s)) # 1 THEN Raise("ValueError")
    ELSE LET d == CHOOSE i \in DotsOf(s) : TRUE
             a == SubSeq(s, 1, d - 1)
             b == SubSeq(s, d + 1, Len(s))
         IN  IF /\ (a = "" \/ IsDigits(a))
                /\ (b = "" \/ (IsDigits(b) /\ Len(b) = 1))
                /\ ~(a = "" /\ b = "")
             THEN JFloat(10 * DigitsToInt(a) + DigitsToInt(b))
             ELSE Raise("ValueError")

\* float(v): a number converts, a bool converts as the int it is, a string
\* is parsed (ValueError when it is no numeral), None and a list are a
\* TypeError.
PyFloat(v) ==
    CASE v.t = "int" -> JFloat(10 * v.v)
      [] v.t = "float" -> v
      [] v.t = "bool" -> JFloat(IF v.v THEN 10 ELSE 0)
      [] v.t = "str" -> ParseDecimal(v.v)
      [] OTHER -> Raise("TypeError")

\* str(k) of a JSON object key, which is a string already.
PyStr(k) == k

----------------------------------------------------------------------------
(* Parser._find_projection *)

\* The mapping the scan compares against.
TargetMapping(s, w) ==
    [seasonId |-> s, scoringPeriodId |-> w, statSourceId |-> 1,
     statSplitTypeId |-> 0]

\* {k: item[k] for k in mapping} == mapping; item[k] is a KeyError when the
\* record lacks k.
ItemMatches(item, mapping) == \A k \in DOMAIN mapping : item[k] = mapping[k]
ItemMatchesAnyField(item, mapping) ==
    \E k \in DOMAIN mapping : item[k] = mapping[k]

ItemEquals(item, mapping) == ItemMatches(item, mapping)

RECURSIVE ScanFrom(_, _, _)
ScanFrom(stats, i, mapping) ==
    IF i > Len(stats) THEN None
    ELSE IF ~(DOMAIN mapping \subseteq DOMAIN stats[i]) THEN Raise("KeyError")
    ELSE IF ItemEquals(stats[i], mapping) THEN stats[i]
    ELSE ScanFrom(stats, i + 1, mapping)

_find_projection(stats, s, w) == ScanFrom(stats, 1, TargetMapping(s, w))

----------------------------------------------------------------------------
(* Parser._parse_stats.  A stat dict is the sequence of its (key, value)    *)
(* items in the order the JSON object lists them; its keys are distinct.    *)

DictPut(d, k, v) == [x \in DOMAIN d \cup {k} |-> IF x = k THEN v ELSE d[x]]
EmptyDict == [x \in {} |-> None]

KeepsItem(k) == PyStr(k) \in DOMAIN STAT_MAP
ItemKeyRaw(k) == PyStr(k)
ItemKey(k) == STAT_MAP[PyStr(k)]

RECURSIVE ParseFrom(_, _, _)
ParseFrom(items, i, acc) ==
    IF i > Len(items) THEN acc
    ELSE IF ~KeepsItem(items[i][1]) THEN ParseFrom(items, i + 1, acc)
    ELSE IF IsRaise(PyFloat(items[i][2])) THEN PyFloat(items[i][2])
    ELSE ParseFrom(items, i + 1,
                   DictPut(acc, ItemKey(items[i][1]), PyFloat(items[i][2])))

_parse_stats(stat) == ParseFrom(stat, 1, EmptyDict)

----------------------------------------------------------------------------
(* Parser.weekly_projections: the row of one player entry.                  *)

top_level_keys ==
    "id" :> "source_player_id" @@ "fullName" :> "source_player_name" @@
    "proTeamId" :> "source_team_id" @@
    "defaultPositionId" :> "source_player_position"

DictGet(d, k, default) == IF k \in DOMAIN d THEN d[k] ELSE default

\* {top_level_keys.get(k): v for k, v in player.items() if k in top_level_keys}
Identity(player) ==
    [c \in {top_level_keys[k] : k \in DOMAIN player \cap DOMAIN top_level_keys}
        |-> player[CHOOSE k \in DOMAIN top_level_keys : top_level_keys[k] = c]]

\* POSITION_MAP.get(x, "UNK"): a list is unhashable, a float hashes as the
\* integer it equals and True as 1, any other key outside the table gives
\* the default.
position_default_none == None
position_default == JStr("UNK")

position_get(x) ==
    CASE x.t = "list" -> Raise("TypeError")
      [] x.t = "int" /\ x.v \in DOMAIN POSITION_MAP -> JStr(POSITION_MAP[x.v])
      [] x.t = "float" /\ x.v % 10 = 0 /\ (x.v \div 10) \in DOMAIN POSITION_MAP
            -> JStr(POSITION_MAP[x.v \div 10])
      [] x.t = "bool" /\ x.v -> JStr(POSITION_MAP[1])
      [] OTHER -> position_default

\* An exception with the statement that raised it.
RaiseAt(site, r) == [t |-> "raise", v |-> r.v, site |-> site]

\* proj.append(p) of the try block, and of its except KeyError clause.
Rows(ps) == [t |-> "rows", v |-> ps]
AppendRow(p) == Rows(<<p>>)
ExceptSkips(p) == Rows(<<>>)
ExceptKeyError(p) == Rows(<<p>>)

\* The try block: the rows it appends, or the exception that leaves it.
TryStats(player, p, s, w) ==
    IF "stats" \notin DOMAIN player THEN ExceptKeyError(p)
    ELSE LET stat == _find_projection(player.stats, s, w)
         IN  IF IsRaise(stat) THEN ExceptKeyError(p)
             ELSE IF stat = None
             THEN AppendRow(DictPut(p, "source_player_projection", None))
             ELSE IF "appliedTotal" \notin DOMAIN stat THEN ExceptKeyError(p)
             ELSE LET p3 == DictPut(p, "source_player_projection",
                                    stat.appliedTotal)
                  IN  IF "stats" \notin DOMAIN stat THEN ExceptKeyError(p3)
                      ELSE IF IsRaise(_parse_stats(stat.stats))
                      THEN RaiseAt("stats", _parse_stats(stat.stats))
                      ELSE AppendRow(p3 @@ _parse_stats(stat.stats))

\* One pass of the loop body of weekly_projections.
weekly_row(player, s, w) ==
    LET p0 == Identity(player)
        code == espn_team(None, DictGet(p0, "source_team_id", JInt(0)))
    IN  IF IsRaise(code) THEN RaiseAt("team", code)
        ELSE IF "source_player_position" \notin DOMAIN p0
        THEN RaiseAt("position", Raise("KeyError"))
        ELSE IF IsRaise(position_get(p0["source_player_position"]))
        THEN RaiseAt("position", position_get(p0["source_player_position"]))
        ELSE TryStats(player,
                 DictPut(DictPut(p0, "source_team_code", code),
                         "source_player_position",
                         position_get(p0["source_player_position"])),
                 s, w)

\* pd.DataFrame(rows): one line per dict, a column per key of any dict, NaN
\* where a dict lacks the key, and the labels 0..n-1.
NaN == [t |-> "nan", v |-> 0]

DataFrame(rows) ==
    LET cols == UNION {DOMAIN rows[i] : i \in DOMAIN rows}
    IN  [columns |-> cols,
         index |-> [i \in DOMAIN rows |-> i - 1],
         data |-> [i \in DOMAIN rows |->
                     [c \in cols |-> DictGet(rows[i], c, NaN)]]]

----------------------------------------------------------------------------
(* A call of Parser._find_projection on a Parser(season, week).             *)

MaxStats == 2

Seasons == {2020, 2021}
Weeks == {0, 1}
TargetSeasons == {2021}

\* Stat records as the provider sends them; two totals tell apart two
\* records with the same four key fields.
StatKeyRecords ==
    [seasonId : Seasons, scoringPeriodId : Weeks, statSourceId : {0, 1},
     statSplitTypeId : {0, 1}, appliedTotal : {JFloat(125), JFloat(80)}]

\* A record without its statSplitTypeId.
ShortRecord ==
    [seasonId |-> 2021, scoringPeriodId |-> 1, statSourceId |-> 1,
     appliedTotal |-> JFloat(125)]

SeqsUpTo(S, n) == UNION {[1..m -> S] : m \in 0..n}

InitFp ==
    /\ season \in TargetSeasons
    /\ week \in Weeks
    /\ fp_pc = "start"
    /\ fp_stats \in SeqsUpTo(StatKeyRecords \cup {ShortRecord}, MaxStats)
    /\ fp_out = None
    /\ IdleBut({"parser", "fp"})

FindProjection ==
    /\ fp_pc = "start"
    /\ fp_out' = _find_projection(fp_stats, season, week)
    /\ fp_pc' = "done"
    /\ UNCHANGED <<fp_stats, vars_parser>> /\ Frame({"parser", "fp"})

NextFp == FindProjection

SpecLocate == InitFp /\ [][NextFp]_vars

KeyFields == {"seasonId", "scoringPeriodId", "statSourceId", "statSplitTypeId"}
HasKeyFields(stats) == \A i \in DOMAIN stats : KeyFields \subseteq DOMAIN stats[i]

\* The positions of the records whose four fields equal the target's.
MatchingAt(stats, s, w) ==
    {i \in DOMAIN stats :
        /\ stats[i].seasonId = s
        /\ stats[i].scoringPeriodId = w
        /\ stats[i].statSourceId = 1
        /\ stats[i].statSplitTypeId = 0}

\* C1: on a list of stat records, _find_projection returns the first record
\* in input order whose seasonId, scoringPeriodId, statSourceId and
\* statSplitTypeId equal (season, week, 1, 0); it returns None when no record
\* matches, the empty list included, and never a record that differs from the
\* target in one of the four fields.
C1_FirstMatch ==
    (fp_pc = "done" /\ HasKeyFields(fp_stats)) =>
        LET M == MatchingAt(fp_stats, season, week)
        IN  /\ M = {} => fp_out = None
            /\ M # {} =>
                  /\ \E i \in M : (\A j \in M : i <= j) /\ fp_out = fp_stats[i]
                  /\ fp_out.seasonId = season
                  /\ fp_out.scoringPeriodId = week
                  /\ fp_out.statSourceId = 1
                  /\ fp_out.statSplitTypeId = 0

\* C1 witness: two records match, they differ in their total, and the first
\* one is returned.
C1_Witness ==
    /\ fp_pc = "done"
    /\ Len(fp_stats) = 2
    /\ HasKeyFields(fp_stats)
    /\ MatchingAt(fp_stats, season, week) = {1, 2}
    /\ fp_stats[1] # fp_stats[2]
    /\ fp_out = fp_stats[1]

----------------------------------------------------------------------------
(* A call of Parser._parse_stats.                                           *)

MaxStatItems == 2

StatKeys == {"53", "58", "2", "999"}
StatValues == {JInt(5), JStr("8.5"), JStr("abc"), JNull}

\* The item lists of JSON objects: no key twice.
StatDicts ==
    {d \in SeqsUpTo(StatKeys \X StatValues, MaxStatItems) :
        \A i, j \in DOMAIN d : i # j => d[i][1] # d[j][1]}

InitPs ==
    /\ ps_pc = "start"
    /\ ps_stat \in StatDicts
    /\ ps_out = None
    /\ IdleBut({"ps"})

ParseStats ==
    /\ ps_pc = "start"
    /\ ps_out' = _parse_stats(ps_stat)
    /\ ps_pc' = "done"
    /\ UNCHANGED ps_stat /\ Frame({"ps"})

NextPs == ParseStats

SpecParse == InitPs /\ [][NextPs]_vars

\* The stat values that are numbers, with the float each one is.
NumeralFloat == (JInt(5) :> JFloat(50)) @@ (JStr("8.5") :> JFloat(85))

KnownAt(items) == {i \in DOMAIN items : items[i][1] \in DOMAIN STAT_MAP}

\* C4: when every value under a code of the Stat Code Table is a number,
\* _parse_stats raises nothing and returns exactly the entries
\* STAT_MAP[k] -> float(v) of the keys k that are in the table; codes outside
\* the table are dropped whatever they hold; only unknown codes give the
\* empty mapping.
C4_Extract ==
    (/\ ps_pc = "done"
     /\ \A i \in KnownAt(ps_stat) : ps_stat[i][2] \in DOMAIN NumeralFloat) =>
        /\ ~IsRaise(ps_out)
        /\ DOMAIN ps_out = {STAT_MAP[ps_stat[i][1]] : i \in KnownAt(ps_stat)}
        /\ \A i \in KnownAt(ps_stat) :
              ps_out[STAT_MAP[ps_stat[i][1]]] = NumeralFloat[ps_stat[i][2]]
        /\ KnownAt(ps_stat) = {} => ps_out = EmptyDict

\* C4 witness: an unknown code holding a non-number next to a known code;
\* the result holds the known code's entry alone.
C4_Witness ==
    /\ ps_pc = "done"
    /\ ps_stat = << <<"999", JStr("abc")>>, <<"53", JStr("8.5")>> >>
    /\ ps_out = [rec_rec |-> JFloat(85)]

----------------------------------------------------------------------------
(* ESPNProjections.load_raw(season, week): Parser(season, week) parses the  *)
(* response the scraper returns.                                            *)

MaxPlayers == 2

StatRec(s, w, src, split, total, items) ==
    [seasonId |-> s, scoringPeriodId |-> w, statSourceId |-> src,
     statSplitTypeId |-> split, appliedTotal |-> total, stats |-> items]

Without(f, k) == [x \in DOMAIN f \ {k} |-> f[x]]

\* Week 1 projections, the season projection (week 0) and a week 1 result.
ProjWeek1 ==
    StatRec(2021, 1, 1, 0, JFloat(125), << <<"53", JInt(5)>>, <<"58", JInt(8)>> >>)
ProjWeek1Other ==
    StatRec(2021, 1, 1, 0, JFloat(80),
            << <<"99", JInt(2)>>, <<"999", JStr("abc")>> >>)
ProjSeason ==
    StatRec(2021, 0, 1, 0, JFloat(2105), << <<"53", JStr("8.5")>> >>)
ActualWeek1 ==
    StatRec(2021, 1, 0, 0, JFloat(97), << <<"53", JInt(5)>> >>)
ProjNullTotal == StatRec(2021, 1, 1, 0, JNull, << >>)
ProjBadValue == StatRec(2021, 1, 1, 0, JFloat(30), << <<"53", JStr("abc")>> >>)
ProjNullValue == StatRec(2021, 1, 1, 0, JFloat(30), << <<"53", JNull>> >>)
ProjListValue ==
    StatRec(2021, 1, 1, 0, JFloat(30), << <<"999", JNull>>, <<"58", JList>> >>)
ProjBoolValue ==
    StatRec(2021, 1, 1, 0, JFloat(30), << <<"53", JBool(TRUE)>> >>)

Player(id, name, team, pos, stats) ==
    [id |-> JInt(id), fullName |-> JStr(name), proTeamId |-> JInt(team),
     defaultPositionId |-> pos, stats |-> stats, jersey |-> JStr("10")]

Entry(id, player) == [id |-> JInt(id), player |-> player]

SamplePlayer == Player(100, "Sample Player", 25, JInt(3), <<ProjWeek1>>)

PlayerEntries ==
    { Entry(100, SamplePlayer),
      Entry(101, Player(101, "Washington D/ST", 28, JInt(16),
                        <<ActualWeek1, ProjSeason, ProjWeek1Other>>)),
      Entry(102, Player(102, "Free Agent", 99, JInt(7), <<ActualWeek1>>)),
      Entry(103, Player(103, "No Stats Yet", 25, JStr("3"), << >>)),
      Entry(104, Player(104, "Null Position", 12, JNull, <<ProjSeason>>)),
      Entry(105, Player(105, "List Position", 12, JList, <<ProjWeek1>>)),
      Entry(106, Player(106, "Two Records", 12, JInt(1),
                        <<ProjWeek1Other, ProjWeek1>>)),
      Entry(107, Player(107, "Null Total", 12, JInt(2), <<ProjNullTotal>>)),
      Entry(108, Player(108, "No Total", 12, JInt(2),
                        <<Without(ProjWeek1, "appliedTotal")>>)),
      Entry(109, Player(109, "No Stat Map", 12, JInt(2),
                        <<Without(ProjWeek1, "stats")>>)),
      Entry(110, Player(110, "Short Record", 12, JInt(4),
                        <<ShortRecord, ProjWeek1>>)),
      Entry(111, Player(111, "Bad Value", 12, JInt(5), <<ProjBadValue>>)),
      Entry(112, Player(112, "Null Value", 12, JInt(5), <<ProjNullValue>>)),
      Entry(113, Without(Player(113, "No Id", 25, JInt(3), <<ProjWeek1>>), "id")),
      Entry(114, Without(Player(114, "", 25, JInt(3), <<ProjWeek1>>), "fullName")),
      Entry(115, Without(Player(115, "No Team", 25, JInt(3), <<ProjWeek1>>),
                         "proTeamId")),
      Entry(116, Without(Player(116, "No Position", 25, JInt(3), <<ProjWeek1>>),
                         "defaultPositionId")),
      Entry(117, Without(Player(117, "No Stats", 25, JInt(3), <<ProjWeek1>>),
                         "stats")),
      [id |-> JInt(118)],
      Entry(119, Player(119, "Bad Value No Total", 12, JInt(5),
                        <<Without(ProjBadValue, "appliedTotal")>>)),
      Entry(120, Player(120, "List Value", 12, JInt(5), <<ProjListValue>>)),
      Entry(121, Player(121, "Bool Value", 12, JInt(5), <<ProjBoolValue>>)) }

Responses ==
    {[players |-> l] : l \in SeqsUpTo(PlayerEntries, MaxPlayers)}
        \cup {[messages |-> <<JStr("Not Found")>>]}

InitLoad ==
    /\ season \in TargetSeasons
    /\ week \in Weeks
    /\ load_pc = "start"
    /\ content \in Responses
    /\ players = << >>
    /\ proj = << >>
    /\ done_n = 0
    /\ exc = None
    /\ table = None
    /\ IdleBut({"parser", "load"})

\* [item["player"] for item in content["players"]]
LoadPlayers ==
    /\ load_pc = "start"
    /\ IF /\ "players" \in DOMAIN content
          /\ \A i \in DOMAIN content.players : "player" \in DOMAIN content.players[i]
       THEN /\ players' = [i \in DOMAIN content.players |-> content.players[i].player]
            /\ load_pc' = "loop"
            /\ exc' = exc
       ELSE /\ players' = players
            /\ load_pc' = "raised"
            /\ exc' = RaiseAt("players", Raise("KeyError"))
    /\ UNCHANGED <<content, proj, done_n, table, vars_parser>>
    /\ Frame({"parser", "load"})

\* One pass of the for loop.
LoadPlayer ==
    /\ load_pc = "loop"
    /\ done_n < Len(players)
    /\ LET r == weekly_row(players[done_n + 1], season, week)
       IN  IF IsRaise(r)
           THEN /\ load_pc' = "raised"
                /\ exc' = r
                /\ UNCHANGED <<proj, done_n>>
           ELSE /\ proj' = proj \o r.v
                /\ done_n' = done_n + 1
                /\ UNCHANGED <<load_pc, exc>>
    /\ UNCHANGED <<content, players, table, vars_parser>>
    /\ Frame({"parser", "load"})

\* return pd.DataFrame(proj), which load_raw wraps in pd.DataFrame again.
LoadReturn ==
    /\ load_pc = "loop"
    /\ done_n = Len(players)
    /\ table' = DataFrame(proj)
    /\ load_pc' = "returned"
    /\ UNCHANGED <<content, players, proj, done_n, exc, vars_parser>>
    /\ Frame({"parser", "load"})

NextLoad == LoadPlayers \/ LoadPlayer \/ LoadReturn

SpecLoad == InitLoad /\ [][NextLoad]_vars

\* The keys the spec expects of a player entry.
RequiredKeys == {"id", "fullName", "proTeamId", "defaultPositionId", "stats"}

\* The positions, in a player's stats list, of the records whose four key
\* fields equal (season, week, 1, 0).
Located(player) ==
    IF "stats" \notin DOMAIN player THEN {}
    ELSE {i \in DOMAIN player.stats :
            /\ KeyFields \subseteq DOMAIN player.stats[i]
            /\ player.stats[i].seasonId = season
            /\ player.stats[i].scoringPeriodId = week
            /\ player.stats[i].statSourceId = 1
            /\ player.stats[i].statSplitTypeId = 0}

FirstLocated(player) ==
    player.stats[CHOOSE i \in Located(player) : \A j \in Located(player) : i <= j]

\* C2: each pass of the loop appends exactly one row, and the table the load
\* returns has one row per entry of the players array, in response order:
\* row i carries the id and the name of entry i, whether or not a projection
\* was found for it.
C2_OneRowPerPlayer ==
    /\ Len(proj) = done_n
    /\ load_pc = "returned" =>
          /\ Len(table.data) = Len(content.players)
          /\ \A i \in DOMAIN content.players :
                LET P == content.players[i].player
                IN  /\ "id" \in DOMAIN P => table.data[i].source_player_id = P.id
                    /\ "fullName" \in DOMAIN P =>
                          table.data[i].source_player_name = P.fullName

\* C2 witness: a returned table of two rows, the first with a located
\* projection and the second with none.
C2_Witness ==
    /\ load_pc = "returned"
    /\ Len(table.data) = 2
    /\ Located(players[1]) # {} /\ Located(players[2]) = {}
    /\ table.data[1].source_player_projection = JFloat(125)
    /\ table.data[2].source_player_projection = None

\* C3 as stated: every row of the weekly load carries
\* source_player_projection; it is the appliedTotal of the located record,
\* with the named stats of that record, when a record is located, and None in
\* every other case.
C3_AsStated ==
    \A i \in DOMAIN proj :
        /\ "source_player_projection" \in DOMAIN proj[i]
        /\ IF Located(players[i]) = {}
           THEN proj[i].source_player_projection = None
           ELSE LET rec == FirstLocated(players[i])
                IN  /\ "appliedTotal" \in DOMAIN rec
                    /\ proj[i].source_player_projection = rec.appliedTotal
                    /\ "stats" \in DOMAIN rec =>
                          {STAT_MAP[rec.stats[j][1]] : j \in KnownAt(rec.stats)}
                              \subseteq DOMAIN proj[i]

\* C6 as stated: no row is emitted for a player entry that lacks one of the
\* expected keys, and the load returns no table for a response holding such
\* an entry.
C6_AsStated ==
    /\ \A i \in DOMAIN proj : RequiredKeys \subseteq DOMAIN players[i]
    /\ load_pc = "returned" =>
          \A i \in DOMAIN content.players :
              /\ "player" \in DOMAIN content.players[i]
              /\ RequiredKeys \subseteq DOMAIN content.players[i].player

\* The label of a position id: the Position Code Table, "UNK" outside it.
LabelOf(x) ==
    CASE x = JInt(1) -> "QB" [] x = JInt(2) -> "RB" [] x = JInt(3) -> "WR"
      [] x = JInt(4) -> "TE" [] x = JInt(5) -> "K" [] x = JInt(16) -> "DST"
      [] OTHER -> "UNK"

PositionLabels == {"QB", "RB", "WR", "TE", "K", "DST", "UNK"}

\* C10 as stated: for an entry that has a defaultPositionId, whatever its
\* value, the load does not raise on the position, and the row's
\* source_player_position is the table's label for a mapped id and "UNK" for
\* every other value.
C10_AsStated ==
    /\ (load_pc = "raised" /\ exc.site = "position") =>
          "defaultPositionId" \notin DOMAIN players[done_n + 1]
    /\ \A i \in DOMAIN proj :
          /\ proj[i].source_player_position =
                JStr(LabelOf(players[i].defaultPositionId))
          /\ proj[i].source_player_position.v \in PositionLabels

\* C10 amended: the same for every defaultPositionId that is a JSON scalar
\* (number, string or null); the load raises on the position only when the
\* key is missing or its value is a JSON array or object, which is
\* unhashable.
C10_Sentinel ==
    /\ (load_pc = "raised" /\ exc.site = "position") =>
          \/ "defaultPositionId" \notin DOMAIN players[done_n + 1]
          \/ players[done_n + 1].defaultPositionId.t = "list"
    /\ \A i \in DOMAIN proj :
          /\ proj[i].source_player_position =
                JStr(LabelOf(players[i].defaultPositionId))
          /\ proj[i].source_player_position.v \in PositionLabels

\* C10 witness: rows emitted for a null, a string and an unmapped integer
\* position id, all "UNK", or for a mapped one.
C10_Witness ==
    /\ load_pc = "returned"
    /\ Len(proj) = 2
    /\ players[1].defaultPositionId = JNull
    /\ proj[1].source_player_position = JStr("UNK")
    /\ players[2].defaultPositionId = JInt(16)
    /\ proj[2].source_player_position = JStr("DST")

\* A value that is no JSON number and no numeral string.
NonNumeric(v) == v.t \notin {"int", "float"} /\ v \notin DOMAIN NumeralFloat

\* The located record of the player holds a non-numeric value under a code
\* of STAT_MAP.
HoldsBadKnown(player) ==
    /\ Located(player) # {}
    /\ "stats" \in DOMAIN FirstLocated(player)
    /\ \E j \in KnownAt(FirstLocated(player).stats) :
          NonNumeric(FirstLocated(player).stats[j][2])

\* C11 as stated: no row is emitted for a player whose located record holds a
\* non-numeric value under a known stat code, the load returns no table for
\* a response with such a player, and the load raises in the stat
\* extraction for such a player only (a non-numeric value under an unknown
\* code raises nothing).
C11_AsStated ==
    /\ \A i \in DOMAIN proj : ~HoldsBadKnown(players[i])
    /\ load_pc = "returned" => \A i \in DOMAIN players : ~HoldsBadKnown(players[i])
    /\ (load_pc = "raised" /\ exc.site = "stats") =>
          HoldsBadKnown(players[done_n + 1])

----------------------------------------------------------------------------
(* process_raw of the two adapters.  A table is its list of column names    *)
(* and its rows, each row a function from column name to cell.              *)

ESPN_COLUMN_MAPPING ==
    "source_player_position" :> "pos" @@ "source_player_projection" :> "proj" @@
    "source_team_code" :> "team" @@ "source_player_name" :> "plyr"

WATSON_COLUMN_ITEMS ==
    << <<"EVENT_WEEK", "week">>, <<"OPPONENT_NAME", "opp">>,
       <<"EVENT_YEAR", "season">>, <<"FULL_NAME", "plyr">>,
       <<"POSITION", "pos">>, <<"TEAM", "team">>,
       <<"OUTSIDE_PROJECTION", "outside_projection">>,
       <<"SCORE_PROJECTION", "proj">>,
       <<"SCORE_DISTRIBUTION", "score_distribution">>,
       <<"LOW_SCORE", "low_score">>, <<"HIGH_SCORE", "high_score">>,
       <<"SIMULATION_PROJECTION", "simulation_projection">> >>

WATSON_COLUMN_MAPPING ==
    [k \in {WATSON_COLUMN_ITEMS[i][1] : i \in DOMAIN WATSON_COLUMN_ITEMS} |->
        WATSON_COLUMN_ITEMS[
            CHOOSE i \in DOMAIN WATSON_COLUMN_ITEMS :
                WATSON_COLUMN_ITEMS[i][1] = k][2]]

COLUMN_MAPPING(adapter) ==
    IF adapter = "espn" THEN ESPN_COLUMN_MAPPING ELSE WATSON_COLUMN_MAPPING

\* ProjectionSource.remap_columns: each name renamed per the column mapping,
\* a name outside the mapping kept.
remap_columns(mapping, cols) ==
    [i \in DOMAIN cols |->
        IF cols[i] \in DOMAIN mapping THEN mapping[cols[i]] ELSE cols[i]]

\* A wanted list that also keeps one named stat column.
ESPN_wanted_with_stats ==
    <<"source_player_position", "source_player_name", "source_player_id",
      "source_team_code", "source_player_projection", "rec_rec">>

\* wanted of ESPNProjections.process_raw
ESPN_wanted ==
    <<"source_player_position", "source_player_name", "source_player_id",
      "source_team_code", "source_player_projection">>

\* wanted of WatsonProjections.process_raw: list(COLUMN_MAPPING.values())
WATSON_wanted ==
    [i \in DOMAIN WATSON_COLUMN_ITEMS |-> WATSON_COLUMN_ITEMS[i][2]]

SeqRange(q) == {q[i] : i \in DOMAIN q}

\* df.columns = names: the cells keep their place, the columns are renamed.
SetColumns(df, names) ==
    [columns |-> names,
     data |-> [r \in DOMAIN df.data |->
                 [c \in SeqRange(names) |->
                     df.data[r][df.columns[CHOOSE i \in DOMAIN names : names[i] = c]]]]]

\* df.loc[:, wanted]: KeyError when a wanted column is not in the table.
LocColumns(df, wanted) ==
    IF ~(SeqRange(wanted) \subseteq SeqRange(df.columns)) THEN Raise("KeyError")
    ELSE [columns |-> wanted,
          data |-> [r \in DOMAIN df.data |->
                      [c \in SeqRange(wanted) |-> df.data[r][c]]]]

ESPN_process_raw(df) ==
    LET sel == LocColumns(df, ESPN_wanted)
    IN  IF IsRaise(sel) THEN sel
        ELSE SetColumns(sel, remap_columns(ESPN_COLUMN_MAPPING, sel.columns))

WATSON_process_raw(df) ==
    LocColumns(SetColumns(df, remap_columns(WATSON_COLUMN_MAPPING, df.columns)),
               WATSON_wanted)

process_raw(adapter, df) ==
    IF adapter = "espn" THEN ESPN_process_raw(df) ELSE WATSON_process_raw(df)

\* The columns a raw table may hold, in a fixed order.  The ESPN load sets
\* the team code and the position on every row; the id, the name, the team
\* id, the projection and the named stats are there when some row has them.
\* Watson has the keys of Parser.player and Parser.projection.
ESPN_RAW_REQUIRED ==
    <<"source_team_code", "source_player_position">>
ESPN_RAW_OPTIONAL ==
    <<"source_player_id", "source_player_name", "source_team_id",
      "source_player_projection", "rec_rec", "rec_tar">>
WATSON_RAW_OPTIONAL == <<"PLAYERID", "DATA_TIMESTAMP", "AGE", "PRO_TEAM_ID">>

InSet(S, q) == SelectSeq(q, LAMBDA c : c \in S)

\* A one-row table over the column list cols; each cell holds the name of
\* its raw column, which tells where a cell of the result came from.
RawTable(cols) ==
    [columns |-> cols,
     data |-> << [c \in SeqRange(cols) |-> JStr(c)] >>]

ESPN_RAW_TABLES ==
    {RawTable(InSet(S, ESPN_RAW_REQUIRED \o ESPN_RAW_OPTIONAL)) :
        S \in {SeqRange(ESPN_RAW_REQUIRED) \cup T :
                  T \in SUBSET SeqRange(ESPN_RAW_OPTIONAL)}}

WATSON_KEYS == [i \in DOMAIN WATSON_COLUMN_ITEMS |-> WATSON_COLUMN_ITEMS[i][1]]

WATSON_RAW_TABLES ==
    {RawTable(InSet(S, WATSON_KEYS \o WATSON_RAW_OPTIONAL)) :
        S \in {(SeqRange(WATSON_KEYS) \ D) \cup T :
                  D \in {{}} \cup {{k} : k \in SeqRange(WATSON_KEYS)},
                  T \in SUBSET SeqRange(WATSON_RAW_OPTIONAL)}}

InitPr ==
    /\ pr_pc = "start"
    /\ pr_adapter \in {"espn", "watson"}
    /\ pr_df \in (IF pr_adapter = "espn" THEN ESPN_RAW_TABLES
                  ELSE WATSON_RAW_TABLES)
    /\ pr_out = None
    /\ IdleBut({"pr"})

ProcessRaw ==
    /\ pr_pc = "start"
    /\ pr_out' = process_raw(pr_adapter, pr_df)
    /\ pr_pc' = IF IsRaise(process_raw(pr_adapter, pr_df)) THEN "raised" ELSE "done"
    /\ UNCHANGED <<pr_adapter, pr_df>>
    /\ Frame({"pr"})

NextPr == ProcessRaw

SpecProc == InitPr /\ [][NextPr]_vars

MappingImage(adapter) ==
    {COLUMN_MAPPING(adapter)[k] : k \in DOMAIN COLUMN_MAPPING(adapter)}

\* C8 as stated: every column of the table process_raw returns is the
\* renamed image of a key of the adapter's COLUMN_MAPPING.
C8_AsStated ==
    pr_pc = "done" => SeqRange(pr_out.columns) \subseteq MappingImage(pr_adapter)

\* C8 amended: process_raw keeps the wanted columns only.  For Watson they
\* are the images of the twelve keys of COLUMN_MAPPING; for ESPN they are
\* pos, plyr, team and proj, the images of the four keys of COLUMN_MAPPING,
\* and source_player_id, which is outside the mapping and keeps its name.
\* Each kept column holds the cells of the raw column it is named after;
\* every other raw column, the named stats included, is dropped.
C8_Whitelist ==
    pr_pc = "done" =>
        /\ pr_adapter = "espn" =>
              /\ pr_out.columns = <<"pos", "plyr", "source_player_id", "team", "proj">>
              /\ pr_out.data[1].pos = JStr("source_player_position")
              /\ pr_out.data[1].plyr = JStr("source_player_name")
              /\ pr_out.data[1].source_player_id = JStr("source_player_id")
              /\ pr_out.data[1].team = JStr("source_team_code")
              /\ pr_out.data[1].proj = JStr("source_player_projection")
        /\ pr_adapter = "watson" =>
              /\ SeqRange(pr_out.columns) = MappingImage("watson")
              /\ Len(pr_out.columns) = 12
              /\ \A k \in DOMAIN WATSON_COLUMN_MAPPING :
                    pr_out.data[1][WATSON_COLUMN_MAPPING[k]] = JStr(k)

\* C8 witness: an ESPN table with named stat columns has been processed and
\* the result holds none of them, but holds source_player_id.
C8_Witness ==
    /\ pr_pc = "done"
    /\ pr_adapter = "espn"
    /\ {"rec_rec", "rec_tar", "source_team_id"} \subseteq SeqRange(pr_df.columns)
    /\ "rec_rec" \notin SeqRange(pr_out.columns)
    /\ "source_player_id" \in SeqRange(pr_out.columns)

----------------------------------------------------------------------------
(* standardize of the two adapters.  A table is the list of its rows; a row *)
(* holds its row label and its cells.  The team, position and name          *)
(* canonicalizers are collaborators outside the repository: each maps one   *)
(* cell, keeps the row labels, and leaves a canonical value as it is.  The  *)
(* model tries two team canonicalizers (one knows the legacy code WSH, one  *)
(* passes it through) and two position canonicalizers (one knows D/ST).     *)

LowerChar ==
    "A" :> "a" @@ "B" :> "b" @@ "C" :> "c" @@ "D" :> "d" @@ "E" :> "e" @@
    "F" :> "f" @@ "G" :> "g" @@ "H" :> "h" @@ "I" :> "i" @@ "J" :> "j" @@
    "K" :> "k" @@ "L" :> "l" @@ "M" :> "m" @@ "N" :> "n" @@ "O" :> "o" @@
    "P" :> "p" @@ "Q" :> "q" @@ "R" :> "r" @@ "S" :> "s" @@ "T" :> "t" @@
    "U" :> "u" @@ "V" :> "v" @@ "W" :> "w" @@ "X" :> "x" @@ "Y" :> "y" @@
    "Z" :> "z"

RECURSIVE StrLower(_)
StrLower(s) ==
    IF Len(s) = 0 THEN s
    ELSE (IF SubSeq(s, 1, 1) \in DOMAIN LowerChar
          THEN LowerChar[SubSeq(s, 1, 1)] ELSE SubSeq(s, 1, 1))
             \o StrLower(SubSeq(s, 2, Len(s)))

RECURSIVE StrReplace(_, _, _)
StrReplace(s, old, new) ==
    IF Len(s) < Len(old) THEN s
    ELSE IF SubSeq(s, 1, Len(old)) = old
    THEN new \o StrReplace(SubSeq(s, Len(old) + 1, Len(s)), old, new)
    ELSE SubSeq(s, 1, 1) \o StrReplace(SubSeq(s, 2, Len(s)), old, new)

\* Series.str.lower(), Series.str.replace(old, new) and Series + suffix on
\* one cell; a null cell stays null.
str_lower(cell) == IF cell.t = "str" THEN JStr(StrLower(cell.v)) ELSE NaN
str_replace(cell, old, new) ==
    IF cell.t = "str" THEN JStr(StrReplace(cell.v, old, new)) ELSE NaN
str_add(cell, suffix) == IF cell.t = "str" THEN JStr(cell.v \o suffix) ELSE NaN

\* The collaborators, on one cell.
standardize_team(mode, cell) ==
    IF cell.t = "str" /\ mode = "knows_wsh" /\ cell.v = "WSH" THEN JStr("WAS")
    ELSE cell

standardize_position(mode, cell) ==
    IF cell.t = "str" /\ mode = "knows_d_st" /\ cell.v = "D/ST" THEN JStr("DST")
    ELSE cell

standardize_player_name(cell) == str_lower(cell)

\* df.assign(col=values) with positional values (a list or an ndarray).
AssignByPosition(df, col, vals) ==
    [i \in DOMAIN df |-> [df[i] EXCEPT ![col] = vals[i]]]

\* df.assign(col=pd.Series(values)): the Series carries the labels 0..n-1
\* and is aligned on the row labels of df; a label outside them gets NaN.
AssignByLabel(df, col, vals) ==
    [i \in DOMAIN df |->
        [df[i] EXCEPT ![col] =
            IF df[i].label + 1 \in DOMAIN vals THEN vals[df[i].label + 1]
            ELSE NaN]]

\* np.where(df.pos == 'DST', df.team.str.lower() + ' defense',
\*          df.plyr.apply(nflnames.standardize_player_name))
PlayerNames(df) ==
    [i \in DOMAIN df |->
        IF df[i].pos = JStr("DST")
        THEN str_add(str_lower(df[i].team), " defense")
        ELSE standardize_player_name(df[i].plyr)]

\* ESPNProjections.standardize_players returns pd.Series(np.where(...)),
\* WatsonProjections.standardize_players the ndarray itself.
AssignPlayers(adapter, df) ==
    IF adapter = "espn" THEN AssignByLabel(df, "plyr", PlayerNames(df))
    ELSE AssignByPosition(df, "plyr", PlayerNames(df))

\* Pass 1: teams (ESPN rewrites WSH to WAS first; Watson has opp as well).
AssignTeams(adapter, tm, df) ==
    IF adapter = "espn"
    THEN AssignByPosition(df, "team",
             [i \in DOMAIN df |->
                 standardize_team(tm, str_replace(df[i].team, "WSH", "WAS"))])
    ELSE AssignByPosition(
             AssignByPosition(df, "team",
                 [i \in DOMAIN df |-> standardize_team(tm, df[i].team)]),
             "opp", [i \in DOMAIN df |-> standardize_team(tm, df[i].opp)])

\* Pass 2: positions.
AssignPositions(pm, df) ==
    AssignByPosition(df, "pos",
        [i \in DOMAIN df |-> standardize_position(pm, df[i].pos)])

standardize(adapter, tm, pm, df) ==
    AssignPlayers(adapter, AssignPositions(pm, AssignTeams(adapter, tm, df)))

MaxRows == 2
MaxRuns == 3

RawNames == {JStr("Sample Player"), JStr("49ers D/ST")}
RawTeams == {JStr("SF"), JStr("WSH")}

\* The rows of a processed ESPN table and of a processed Watson table.
ESPN_ROWS ==
    [label : 0..(MaxRows - 1), plyr : RawNames, pos : {JStr("WR"), JStr("DST")},
     team : RawTeams]
WATSON_ROWS ==
    [label : 0..(MaxRows - 1), plyr : RawNames, pos : {JStr("WR"), JStr("D/ST")},
     team : RawTeams, opp : {JStr("WSH")}]

\* Tables: no row label twice.  The labels are 0..n-1 in order for a table
\* that comes from load_raw and process_raw, and any distinct labels for a
\* table that was filtered or reordered before.
Tables(rows) ==
    {df \in SeqsUpTo(rows, MaxRows) :
        \A i, j \in DOMAIN df : i # j => df[i].label # df[j].label}

InitSt ==
    /\ st_pc = "start"
    /\ st_adapter \in {"espn", "watson"}
    /\ teams_mode \in {"knows_wsh", "passes"}
    /\ positions_mode \in {"knows_d_st", "passes"}
    /\ st_in \in (IF st_adapter = "espn" THEN Tables(ESPN_ROWS)
                  ELSE Tables(WATSON_ROWS))
    /\ st_df = st_in
    /\ st_run = 1
    /\ st_prev = None
    /\ IdleBut({"st"})

StdTeams ==
    /\ st_pc = "start"
    /\ st_df' = AssignTeams(st_adapter, teams_mode, st_df)
    /\ st_pc' = "teams"
    /\ UNCHANGED <<st_adapter, st_in, teams_mode, positions_mode, st_run, st_prev>>
    /\ Frame({"st"})

StdPositions ==
    /\ st_pc = "teams"
    /\ st_df' = AssignPositions(positions_mode, st_df)
    /\ st_pc' = "positions"
    /\ UNCHANGED <<st_adapter, st_in, teams_mode, positions_mode, st_run, st_prev>>
    /\ Frame({"st"})

StdPlayers ==
    /\ st_pc = "positions"
    /\ st_df' = AssignPlayers(st_adapter, st_df)
    /\ st_pc' = "done"
    /\ UNCHANGED <<st_adapter, st_in, teams_mode, positions_mode, st_run, st_prev>>
    /\ Frame({"st"})

\* The caller passes the table standardize returned to standardize again.
StdAgain ==
    /\ st_pc = "done"
    /\ st_run < MaxRuns
    /\ st_prev' = st_df
    /\ st_run' = st_run + 1
    /\ st_pc' = "start"
    /\ UNCHANGED <<st_adapter, st_in, st_df, teams_mode, positions_mode>>
    /\ Frame({"st"})

NextSt == StdTeams \/ StdPositions \/ StdPlayers \/ StdAgain

SpecStd == InitSt /\ [][NextSt]_vars

Permute(df, f) == [i \in DOMAIN df |-> df[f[i]]]

\* The canonical team, position and name of one row, from that row alone.
RowTeam(adapter, tm, row) ==
    standardize_team(tm, IF adapter = "espn" /\ row.team = JStr("WSH")
                         THEN JStr("WAS") ELSE row.team)
RowPos(pm, row) == standardize_position(pm, row.pos)
RowName(adapter, tm, pm, row) ==
    IF RowPos(pm, row) = JStr("DST")
    THEN JStr(StrLower(RowTeam(adapter, tm, row).v) \o " defense")
    ELSE standardize_player_name(row.plyr)

\* C7 as stated: the canonical plyr, pos and team of each output row are a
\* function of the same input row only, and standardizing any permutation of
\* the table (rows keeping their labels) gives the same permutation of the
\* standardized table.
C7_AsStated ==
    (st_pc = "done" /\ st_run = 1) =>
        /\ \A i \in DOMAIN st_df :
              /\ st_df[i].team = RowTeam(st_adapter, teams_mode, st_in[i])
              /\ st_df[i].pos = RowPos(positions_mode, st_in[i])
              /\ st_df[i].plyr =
                    RowName(st_adapter, teams_mode, positions_mode, st_in[i])
        /\ \A f \in Permutations(DOMAIN st_in) :
              standardize(st_adapter, teams_mode, positions_mode, Permute(st_in, f))
                  = Permute(st_df, f)

\* C9 as stated: after standardize, a row whose canonical position is DST
\* has plyr lowercase(canonical team) + " defense" ("sf defense" for SF,
\* "was defense" for an ESPN raw team WSH), whatever its raw name; every
\* other row has the name canonicalizer's result on its raw name.
C9_AsStated ==
    (st_pc = "done" /\ st_run = 1) =>
        \A i \in DOMAIN st_df :
            IF st_df[i].pos = JStr("DST")
            THEN /\ st_df[i].plyr = str_add(str_lower(st_df[i].team), " defense")
                 /\ st_df[i].team = JStr("SF") => st_df[i].plyr = JStr("sf defense")
                 /\ (st_adapter = "espn" /\ st_in[i].team = JStr("WSH"))
                       => st_df[i].plyr = JStr("was defense")
            ELSE st_df[i].plyr = standardize_player_name(st_in[i].plyr)

\* C12 as stated: a table t that standardize returned is a fixed point:
\* standardize(t) is t (second run), and standardize(standardize(t)) is
\* standardize(t) (third run), DST rows and ESPN rows whose team was WSH
\* included.
C12_AsStated ==
    (st_pc = "done" /\ st_run > 1) => st_df = st_prev

----------------------------------------------------------------------------
(* The Watson Parser: player and projection.  The argument is the parsed    *)
(* JSON document: an array of snapshots (a list of dicts) or one dict.      *)

PLAYER_KEYS ==
    <<"ACTUAL", "DATA_TIMESTAMP", "SET_END", "EVENT_WEEK", "OPPONENT_NAME",
      "OPPOSITION_RANK", "PLAYERID", "FANTASY_PLAYER_ID", "EVENT_YEAR",
      "FULL_NAME", "POSITION", "TEAM", "TEAM_LOCATION", "AGE", "HEIGHT",
      "WEIGHT", "YEARS_EXPERIENCE", "PRO_TEAM_ID", "IS_ON_INJURED_RESERVE",
      "IS_SUSPENDED", "IS_ON_BYE", "IS_FREE_AGENT", "CURRENT_RANK",
      "INJURY_STATUS_DATE", "OUTSIDE_PROJECTION">>

\* wanted of Parser.projection
projection_wanted ==
    <<"PLAYERID", "DATA_TIMESTAMP", "SCORE_PROJECTION", "SCORE_DISTRIBUTION",
      "LOW_SCORE", "HIGH_SCORE", "OUTSIDE_PROJECTION", "SIMULATION_PROJECTION">>

PyList(q) == [t |-> "list", v |-> q]
PyDict(d) == [t |-> "dict", v |-> d]

\* data[-1] of a non-empty list.
FirstSnapshot(q) == q[1]
LastSnapshot(q) == q[Len(q)]

\* {k: data[k] for k in self.PLAYER_KEYS}: KeyError on the first missing key.
PlayerFields(d) ==
    IF ~(SeqRange(PLAYER_KEYS) \subseteq DOMAIN d) THEN Raise("KeyError")
    ELSE [k \in SeqRange(PLAYER_KEYS) |-> d[k]]

\* Parser.player: a list is replaced by its last element (IndexError when it
\* is empty), a dict is read as it is.
player(data) ==
    IF data.t = "list"
    THEN IF Len(data.v) = 0 THEN Raise("IndexError")
         ELSE PlayerFields(LastSnapshot(data.v))
    ELSE PlayerFields(data.v)

\* Parser.projection: data[-1] is an IndexError on an empty list and a
\* KeyError on a dict, which has no key -1.
projection(data) ==
    IF data.t = "dict" THEN Raise("KeyError")
    ELSE IF Len(data.v) = 0 THEN Raise("IndexError")
    ELSE [k \in DOMAIN LastSnapshot(data.v) \cap SeqRange(projection_wanted)
             |-> LastSnapshot(data.v)[k]]

MaxSnapshots == 2
MaxVersion == 2

\* The key sets of the snapshots tried: every key, every key but one of
\* PLAYER_KEYS, every key but one wanted by projection, the keys of one
\* parser only, and no key of either.
AllSnapshotKeys ==
    SeqRange(PLAYER_KEYS) \cup SeqRange(projection_wanted) \cup {"EXTRA"}
SnapshotKeySets ==
    { AllSnapshotKeys, AllSnapshotKeys \ {"AGE"},
      AllSnapshotKeys \ {"SCORE_PROJECTION"}, SeqRange(PLAYER_KEYS),
      SeqRange(projection_wanted), {"EXTRA"} }

\* A snapshot; each cell holds the version of the snapshot, which tells
\* which snapshot a cell of the result came from.
Snapshots ==
    {[k \in D |-> JInt(v)] : D \in SnapshotKeySets, v \in 1..MaxVersion}

WatsonDocuments ==
    {PyList(q) : q \in SeqsUpTo(Snapshots, MaxSnapshots)}
        \cup {PyDict(d) : d \in Snapshots}

InitWp ==
    /\ wp_pc = "start"
    /\ wp_op = None
    /\ wp_data \in WatsonDocuments
    /\ wp_out = None
    /\ IdleBut({"wp"})

WatsonPlayer ==
    /\ wp_pc = "start"
    /\ wp_op' = "player"
    /\ wp_out' = player(wp_data)
    /\ wp_pc' = IF IsRaise(player(wp_data)) THEN "raised" ELSE "done"
    /\ UNCHANGED wp_data
    /\ Frame({"wp"})

WatsonProjection ==
    /\ wp_pc = "start"
    /\ wp_op' = "projection"
    /\ wp_out' = projection(wp_data)
    /\ wp_pc' = IF IsRaise(projection(wp_data)) THEN "raised" ELSE "done"
    /\ UNCHANGED wp_data
    /\ Frame({"wp"})

NextWp == WatsonPlayer \/ WatsonProjection

SpecWatson == InitWp /\ [][NextWp]_vars

\* The call was made on a non-empty array of snapshots.
OnArray == wp_pc # "start" /\ wp_data.t = "list" /\ Len(wp_data.v) > 0
Authoritative == wp_data.v[Len(wp_data.v)]

\* C13 as stated: on every non-empty array, player returns exactly the
\* PLAYER_KEYS fields, with the values of the last snapshot, and projection
\* returns exactly the wanted fields the last snapshot has, with its values.
C13_AsStated ==
    OnArray =>
        /\ wp_pc = "done"
        /\ wp_op = "player" =>
              /\ DOMAIN wp_out = SeqRange(PLAYER_KEYS)
              /\ \A k \in DOMAIN wp_out : wp_out[k] = Authoritative[k]
        /\ wp_op = "projection" =>
              /\ DOMAIN wp_out = DOMAIN Authoritative \cap SeqRange(projection_wanted)
              /\ \A k \in DOMAIN wp_out : wp_out[k] = Authoritative[k]

\* C13 amended: on every non-empty array both parsers read the last
\* snapshot only.  projection returns exactly the wanted fields the last
\* snapshot has, and never raises.  player returns exactly the PLAYER_KEYS
\* fields of the last snapshot when it has them all, and raises KeyError when
\* it lacks one, whatever the earlier snapshots hold.
C13_LastWins ==
    OnArray =>
        /\ wp_op = "player" =>
              IF SeqRange(PLAYER_KEYS) \subseteq DOMAIN Authoritative
              THEN /\ wp_pc = "done"
                   /\ DOMAIN wp_out = SeqRange(PLAYER_KEYS)
                   /\ \A k \in DOMAIN wp_out : wp_out[k] = Authoritative[k]
              ELSE wp_pc = "raised" /\ wp_out = Raise("KeyError")
        /\ wp_op = "projection" =>
              /\ wp_pc = "done"
              /\ DOMAIN wp_out = DOMAIN Authoritative \cap SeqRange(projection_wanted)
              /\ \A k \in DOMAIN wp_out : wp_out[k] = Authoritative[k]

\* C13 witness: player has read an array of two snapshots that differ in
\* every field and returned the fields of the second.
C13_Witness ==
    /\ wp_pc = "done"
    /\ wp_op = "player"
    /\ wp_data.t = "list"
    /\ Len(wp_data.v) = 2
    /\ "AGE" \in DOMAIN wp_data.v[1]
    /\ wp_data.v[1].AGE = JInt(1)
    /\ wp_out.AGE = JInt(2)
    /\ wp_out.OUTSIDE_PROJECTION = JInt(2)

----------------------------------------------------------------------------
(* Round trip through espn_team: a caller translates a value one way and    *)
(* the result back.                                                        *)

UnknownCode == "XXX"
UnknownId == 99

RtInputs ==
    {JStr(c) : c \in TeamCodes \cup {UnknownCode}}
        \cup {JInt(i) : i \in TeamIds \cup {UnknownId}}

InitRt ==
    /\ rt_pc = "start"
    /\ rt_arg \in RtInputs
    /\ rt_mid = None
    /\ rt_out = None
    /\ IdleBut({"rt"})

RtFirst ==
    /\ rt_pc = "start"
    /\ rt_mid' = IF rt_arg.t = "str" THEN team_id(rt_arg) ELSE team_code(rt_arg)
    /\ rt_pc' = "mid"
    /\ UNCHANGED <<rt_arg, rt_out>> /\ Frame({"rt"})

RtSecond ==
    /\ rt_pc = "mid"
    /\ rt_out' = IF rt_arg.t = "str" THEN team_code(rt_mid) ELSE team_id(rt_mid)
    /\ rt_pc' = "done"
    /\ UNCHANGED <<rt_arg, rt_mid>> /\ Frame({"rt"})

NextRt == RtFirst \/ RtSecond

SpecTeam == InitRt /\ [][NextRt]_vars

\* Abbreviations that share their id with another abbreviation of the table.
Aliased(c) == \E d \in TeamCodes : d # c /\ TEAM_MAP[d] = TEAM_MAP[c]

\* C5 as stated: team_code(team_id(a)) is a for every non-aliased
\* abbreviation and "WAS" for both WSH and WAS, and team_id(team_code(i)) is i
\* for every id of the table.
C5_AsStated ==
    rt_pc = "done" =>
        /\ (rt_arg.t = "str" /\ rt_arg.v \in TeamCodes /\ ~Aliased(rt_arg.v))
               => rt_out = rt_arg
        /\ (rt_arg.t = "str" /\ rt_arg.v \in {"WSH", "WAS"})
               => rt_out = JStr("WAS")
        /\ (rt_arg.t = "int" /\ rt_arg.v \in TeamIds) => rt_out = rt_arg

\* C5 amended: team_code(team_id(a)) is a for every non-aliased abbreviation;
\* for an aliased pair it is the abbreviation the table lists last, "WSH" for
\* WSH and WAS, "JAX" for JAC and JAX, "LAR" for LA and LAR; and
\* team_id(team_code(i)) is i for every id of the table.
C5_RoundTrip ==
    rt_pc = "done" =>
        /\ (rt_arg.t = "str" /\ rt_arg.v \in TeamCodes /\ ~Aliased(rt_arg.v))
               => rt_out = rt_arg
        /\ (rt_arg.t = "str" /\ rt_arg.v \in {"WSH", "WAS"})
               => rt_out = JStr("WSH")
        /\ (rt_arg.t = "str" /\ rt_arg.v \in {"JAC", "JAX"})
               => rt_out = JStr("JAX")
        /\ (rt_arg.t = "str" /\ rt_arg.v \in {"LA", "LAR"})
               => rt_out = JStr("LAR")
        /\ (rt_arg.t = "int" /\ rt_arg.v \in TeamIds) => rt_out = rt_arg

\* C5 witness: the round trip of "WAS" has run and ended on "WSH".
C5_Witness ==
    rt_pc = "done" /\ rt_arg = JStr("WAS") /\ rt_mid = JInt(28)
        /\ rt_out = JStr("WSH")

====
